---- MODULE Spec2Model ----
(***************************************************************************)
(* Model of streamlit_app.py: the Streamlit demonstrator of one-qubit      *)
(* superposition circuits.  One action is one complete run of the script   *)
(* (Streamlit re-runs the whole script on every interaction); the state    *)
(* that survives a run is the session state (STAMP), the process-wide      *)
(* cache_resource entry (the simulator), the file system and the set of    *)
(* installed packages.  The record `last` holds what the last run did.     *)
(***************************************************************************)
EXTENDS Integers, Sequences, FiniteSets, TLC

(***************************************************************************)
(* Bounds of the model.                                                    *)
(***************************************************************************)
MaxRuns == 2      \* button presses explored per behaviour
MaxClock == 1     \* seconds the wall clock may advance
MaxFaults == 1    \* library / file system calls set to fail in one run

(***************************************************************************)
(* Program constants.                                                      *)
(***************************************************************************)
SliderMin == 100            \* st.sidebar.slider(..., 100, 50000, 1000, step=100)
SliderMax == 50000
SliderValue == 1000
SliderStep == 100
ShotsMin == 100             \* number_input(min_value=100, max_value=100000, ...)
ShotsMax == 100000
ShotsMin5 == 100            \* number_input(min_value=100, max_value=200000, value=20000)
ShotsMax5 == 200000
ShotsValue5 == 20000
PhiMinCent == 0             \* slider min_value=0.0, in hundredths of a radian
PhiMaxCent == 628           \* largest multiple of step=0.01 not above 2*pi
PhiValueCent == 209         \* value=2*pi/3 = 2.0943..., shown as 2.09
PhiStepCent == 1            \* step=0.01

Packages == {"qiskit", "qiskit_aer", "qiskit_ibm_runtime"}

(***************************************************************************)
(* Laurent polynomials in w = e^{i*phi/2} with integer coefficients, for   *)
(* a symbolic slider angle phi: <<c1, ..., c5>> is                         *)
(* c1*w^-2 + c2*w^-1 + c3 + c4*w + c5*w^2.  The circuits of the script     *)
(* rotate once, so amplitudes stay within w^-1..w and squares within       *)
(* w^-2..w^2.                                                              *)
(***************************************************************************)
PZero == <<0, 0, 0, 0, 0>>
PConst(c) == <<0, 0, c, 0, 0>>
PAdd(p, q) == <<p[1] + q[1], p[2] + q[2], p[3] + q[3], p[4] + q[4], p[5] + q[5]>>
PNeg(p) == <<0 - p[1], 0 - p[2], 0 - p[3], 0 - p[4], 0 - p[5]>>
PSub(p, q) == <<p[1] - q[1], p[2] - q[2], p[3] - q[3], p[4] - q[4], p[5] - q[5]>>
\* multiplication by w and by 1/w
PUp(p) == <<0, p[1], p[2], p[3], p[4]>>
PDown(p) == <<p[2], p[3], p[4], p[5], 0>>
\* complex conjugation on the unit circle: w -> 1/w
PRev(p) == <<p[5], p[4], p[3], p[2], p[1]>>
\* the coefficient of w^(k-3) in p*q
PMulTerm(p, q, k, i) == IF (k + 3 - i) \in 1..5 THEN p[i] * q[k + 3 - i] ELSE 0
PMulAt(p, q, k) ==
    PMulTerm(p, q, k, 1) + PMulTerm(p, q, k, 2) + PMulTerm(p, q, k, 3)
    + PMulTerm(p, q, k, 4) + PMulTerm(p, q, k, 5)
PMul(p, q) ==
    <<PMulAt(p, q, 1), PMulAt(p, q, 2), PMulAt(p, q, 3), PMulAt(p, q, 4), PMulAt(p, q, 5)>>
\* value at w = 1 (phi = 0)
PAtOne(p) == p[1] + p[2] + p[3] + p[4] + p[5]
\* value at w = i (phi = pi) of a polynomial with even exponents only
PEvenOnly(p) == p[2] = 0 /\ p[4] = 0
PAtI(p) == p[3] - p[1] - p[5]

RECURSIVE Pow2(_)
Pow2(n) == IF n = 0 THEN 1 ELSE 2 * Pow2(n - 1)

\* a complex amplitude re + i*im, both polynomials in w
CZero == [re |-> PZero, im |-> PZero]
COne == [re |-> PConst(1), im |-> PZero]
CAdd(a, b) == [re |-> PAdd(a.re, b.re), im |-> PAdd(a.im, b.im)]
CSub(a, b) == [re |-> PSub(a.re, b.re), im |-> PSub(a.im, b.im)]
CNeg(a) == [re |-> PNeg(a.re), im |-> PNeg(a.im)]
CUp(a) == [re |-> PUp(a.re), im |-> PUp(a.im)]
CDown(a) == [re |-> PDown(a.re), im |-> PDown(a.im)]
\* multiplication by 1+i and by 1-i
CTimes1pI(a) == [re |-> PSub(a.re, a.im), im |-> PAdd(a.re, a.im)]
CTimes1mI(a) == [re |-> PAdd(a.re, a.im), im |-> PSub(a.im, a.re)]
\* |a|^2 = a * conj(a), again re + i*im
CNorm2(a) ==
    [re |-> PAdd(PMul(a.re, PRev(a.re)), PMul(a.im, PRev(a.im))),
     im |-> PSub(PMul(a.im, PRev(a.re)), PMul(a.re, PRev(a.im)))]

(***************************************************************************)
(* Circuits: a sequence of gates; the state is (a0, a1) / sqrt(2)^k.       *)
(***************************************************************************)
Gate(name, angle, cent) == [name |-> name, angle |-> angle, cent |-> cent]
GateH == Gate("h", "", 0)
GateSX == Gate("sx", "", 0)
GateMeasure == Gate("measure", "", 0)
\* qc.p(math.pi, 0)
GatePPi == Gate("p", "pi", 0)
\* qc.rz(phi, 0), phi the slider value in hundredths of a radian
GateRZ(phi) == Gate("rz", "phi", phi)

Ket0 == [a0 |-> COne, a1 |-> CZero, k |-> 0]

ApplyGate(s, g) ==
    CASE g.name = "h" ->
           [a0 |-> CAdd(s.a0, s.a1), a1 |-> CSub(s.a0, s.a1), k |-> s.k + 1]
      [] g.name = "sx" ->
           [a0 |-> CAdd(CTimes1pI(s.a0), CTimes1mI(s.a1)),
            a1 |-> CAdd(CTimes1mI(s.a0), CTimes1pI(s.a1)), k |-> s.k + 2]
      [] g.name = "p" /\ g.angle = "pi" ->
           [a0 |-> s.a0, a1 |-> CNeg(s.a1), k |-> s.k]
      [] g.name = "rz" /\ g.angle = "phi" ->
           [a0 |-> CDown(s.a0), a1 |-> CUp(s.a1), k |-> s.k]
      [] OTHER -> s

RECURSIVE Evolve(_, _)
Evolve(s, gates) ==
    IF gates = <<>> THEN s
    ELSE CHOOSE r \in {Evolve(t, Tail(gates)) : t \in {ApplyGate(s, Head(gates))}} : TRUE

HasMeasure(qc) == \E i \in 1..Len(qc) : qc[i].name = "measure"
Unitary(qc) == SelectSeq(qc, LAMBDA g : g.name # "measure")
\* the circuit holds no rotation by a slider angle other than phi = 0
PhiIsZero(qc) == \A i \in 1..Len(qc) : (qc[i].angle = "phi") => (qc[i].cent = 0)

\* Statevector.from_instruction(qc)
from_instruction(qc) == Evolve(Ket0, Unitary(qc))

\* ideal distribution of the measured bit: numerators over the denominator 2^k
Ideal(qc) ==
    CHOOSE d \in {[n0 |-> CNorm2(s.a0), n1 |-> CNorm2(s.a1), den |-> Pow2(s.k)] :
                  s \in {from_instruction(qc)}} : TRUE


(***************************************************************************)
(* Widgets.  A widget returns the value the user picked when the widget    *)
(* accepts it, and its default otherwise.                                  *)
(***************************************************************************)
\* st.slider(label, min, max, value, step)
Slider(lo, hi, value, step, pick) ==
    IF pick >= lo /\ pick <= hi /\ (pick - lo) % step = 0 THEN pick ELSE value

\* st.number_input(min_value, max_value, value): raises when the default is
\* outside the bounds
NumberInput(lo, hi, value, typed) ==
    IF value < lo \/ value > hi THEN [ok |-> FALSE, v |-> value]
    ELSE [ok |-> TRUE, v |-> IF typed >= lo /\ typed <= hi THEN typed ELSE value]

\* what the user may enter: values inside, on and outside the widgets' ranges
OutDirs == {"figuras"}
SliderPicks == {100, 50000, 150000}
TypedShots == {99, 100000, 200000, 200001}
PhiPicks == {0, 314, 700}

\* the widgets as a fresh session shows them
DefaultInputs ==
    [OUTPUT_DIR |-> "figuras", SAVE_PNGS |-> TRUE, pickShots |-> SliderValue,
     typed |-> 0, pickPhi |-> PhiValueCent]

\* runs that exercise saving: the shots and phase widgets are left alone
SaveInputs ==
    [OUTPUT_DIR : OutDirs, SAVE_PNGS : BOOLEAN, pickShots : {SliderValue},
     typed : {0}, pickPhi : {PhiValueCent}]

\* runs that exercise the shots and phase widgets of a step: saving is off
WidgetInputs(step) ==
    [OUTPUT_DIR : {"figuras"}, SAVE_PNGS : {FALSE},
     pickShots : IF step \in {1, 3, 4} THEN SliderPicks \cup {SliderValue} ELSE {SliderValue},
     typed : IF step \in {1, 3, 4, 5} THEN TypedShots \cup {0} ELSE {0},
     pickPhi : IF step = 5 THEN PhiPicks \cup {PhiValueCent} ELSE {PhiValueCent}]

(***************************************************************************)
(* Circuit builders of the six steps.                                      *)
(***************************************************************************)
\* faulty variant: step 1 without qc.measure(0, 0)
CircuitPaso1SinMedir == <<GateH>>
CircuitPaso1 == <<GateH, GateMeasure>>
CircuitPaso2 == <<GateH>>
CircuitPaso3 == <<GateH, GateH, GateMeasure>>
\* faulty variant: step 4 without qc.p(math.pi, 0)
CircuitPaso4SinFase == <<GateH, GateH, GateMeasure>>
CircuitPaso4 == <<GateH, GatePPi, GateH, GateMeasure>>
\* faulty variant: step 5 without the closing qc.h(0)
CircuitPaso5SinH(phi) == <<GateH, GateRZ(phi), GateMeasure>>
CircuitPaso5(phi) == <<GateH, GateRZ(phi), GateH, GateMeasure>>
CircuitPaso6H == <<GateH>>
CircuitPaso6SX == <<GateSX>>

\* the circuits the six steps can build, with their state vectors and ideal
\* distributions computed once
PhiValues ==
    {Slider(PhiMinCent, PhiMaxCent, PhiValueCent, PhiStepCent, p) : p \in PhiPicks}
KnownCircuits ==
    {CircuitPaso1, CircuitPaso2, CircuitPaso3, CircuitPaso4, CircuitPaso6H, CircuitPaso6SX}
    \cup {CircuitPaso5(p) : p \in PhiValues}
StatevectorTable == [qc \in KnownCircuits |-> from_instruction(qc)]
IdealTable == [qc \in KnownCircuits |-> Ideal(qc)]
StatevectorOf(qc) == IF qc \in KnownCircuits THEN StatevectorTable[qc] ELSE from_instruction(qc)
IdealOf(qc) == IF qc \in KnownCircuits THEN IdealTable[qc] ELSE Ideal(qc)

\* an outcome the noise-free simulator can report: its ideal probability is
\* not zero (at phi = 0 the polynomial is evaluated at w = 1; at any other
\* slider angle a numerator vanishes only if it is the zero polynomial)
Possible(qc, num) ==
    IF PhiIsZero(qc) THEN PAtOne(num.re) # 0
    ELSE num.re # PZero \/ num.im # PZero

\* sim.run(qct, shots=shots).result().get_counts() on the noise-free engine:
\* pick/4 of the shots report "0", unless an outcome is impossible
SamplePicks == {1, 2}
SimCounts(qc, shots, pick) ==
    CHOOSE c \in {[n0 |-> x, n1 |-> shots - x] :
                  x \in {IF ~Possible(qc, d.n0) THEN 0
                         ELSE IF ~Possible(qc, d.n1) THEN shots
                         ELSE (shots * pick) \div 4 : d \in {IdealOf(qc)}}} : TRUE

(***************************************************************************)
(* Calls that can fail in a run: <<call, n>> is the call made for the      *)
(* n-th chart of the run.                                                  *)
(***************************************************************************)
SimCalls == {"transpile", "run", "get_counts"}
ChartCalls == {"plot", "pyplot", "mkdir", "savefig"}
FaultPoints(step) ==
    CASE step \in {1, 3, 4, 5} -> (SimCalls \cup ChartCalls) \X {1}
      [] step = 2 -> {"from_instruction"} \X {1}
      [] step = 6 -> ({"from_instruction"} \cup ChartCalls) \X {1, 2}
      [] OTHER -> {}
FaultSets(step) == {F \in SUBSET FaultPoints(step) : Cardinality(F) <= MaxFaults}

(***************************************************************************)
(* State.                                                                  *)
(***************************************************************************)
VARIABLES
    clock,          \* datetime.now(), in seconds
    installed,      \* packages the interpreter can import
    session_state,  \* st.session_state: has_STAMP, STAMP
    opened,         \* clock value at the first script run of the session
    cache,          \* st.cache_resource entry of get_simulator: 0 or the engine
    built,          \* number of AerSimulator() constructions in the process
    calls,          \* number of get_simulator() calls in the process
    files,          \* PNG files on disk: [dir, stamp, base]
    dirs,           \* directories on disk
    nruns,          \* runs started by a button so far
    last            \* what the last script run did and showed

vars == <<clock, installed, session_state, opened, cache, built, calls,
          files, dirs, nruns, last>>

NoCounts == [n0 |-> 0, n1 |-> 0]
NoMetrics == [Z |-> 0, X |-> 0, den |-> 1]

\* the working record of one script run
RunRecord(step, inp, F, pick, fs, ds, ca, bu, cl, ss) ==
    [step |-> step, inp |-> inp, F |-> F, pick |-> pick,
     STAMP |-> 0, DEFAULT_SHOTS |-> 0, phi |-> 0,
     files |-> fs, dirs |-> ds, cache |-> ca, built |-> bu, calls |-> cl,
     session_state |-> ss,
     warnings |-> <<>>, infos |-> <<>>, figs |-> <<>>, execs |-> <<>>,
     drawn |-> <<>>, counts |-> NoCounts, shown |-> NoCounts, metrics |-> NoMetrics,
     failed |-> <<>>, exc |-> "", escaped |-> <<>>, buttons |-> {},
     panel |-> "none", done |-> FALSE]
StartRun(step, inp, F, pick) ==
    RunRecord(step, inp, F, pick, files, dirs, cache, built, calls, session_state)

\* the one element of a singleton set: Only({f(x) : x \in {e}}) is f(e) with
\* e evaluated once
Only(S) == CHOOSE r \in S : TRUE

Fails(rs, call, n) == <<call, n>> \in rs.F
\* call number n raises
Raise(rs, call, n) == [rs EXCEPT !.exc = call, !.failed = Append(@, <<call, n>>)]
\* an exception leaves the function fn
Escape(rs, fn) == IF rs.exc # "" THEN [rs EXCEPT !.escaped = Append(@, fn)] ELSE rs
\* except Exception as e: st.warning(...)
Catch(rs, w) ==
    IF rs.exc # "" THEN [rs EXCEPT !.exc = "", !.warnings = Append(@, w)] ELSE rs
FigEvent(rs, i, e) == [rs EXCEPT !.figs[i].ev = Append(@, e)]

\* faulty variant: get_simulator without @st.cache_resource
get_simulatorSinCache(rs) ==
    [rs EXCEPT !.cache = rs.built + 1, !.built = rs.built + 1, !.calls = @ + 1]

\* @st.cache_resource def get_simulator(): return AerSimulator()
get_simulator(rs) ==
    IF rs.cache # 0 THEN [rs EXCEPT !.calls = @ + 1]
    ELSE [rs EXCEPT !.cache = rs.built + 1, !.built = rs.built + 1, !.calls = @ + 1]

\* faulty variant: ensure_outdir without its try/except
ensure_outdirSinTry(rs, directory, n) ==
    IF Fails(rs, "mkdir", n) THEN Raise(rs, "mkdir", n)
    ELSE [rs EXCEPT !.dirs = @ \cup {directory}]

ensure_outdir(rs, directory, n) ==
    IF Fails(rs, "mkdir", n)
    THEN [rs EXCEPT !.failed = Append(@, <<"mkdir", n>>), !.warnings = Append(@, "mkdir")]
    ELSE [rs EXCEPT !.dirs = @ \cup {directory}]

FileName(dir, stamp, base_name) == [dir |-> dir, stamp |-> stamp, base |-> base_name]

\* fig.savefig(fname, ...): writes only into an existing directory
savefig(rs, i, fname, n) ==
    IF Fails(rs, "savefig", n) \/ fname.dir \notin rs.dirs
    THEN [rs EXCEPT !.figs[i].ev = Append(@, "savefig"), !.exc = "savefig",
                    !.failed = Append(@, <<"savefig", n>>)]
    ELSE [rs EXCEPT !.figs[i].ev = Append(@, "savefig"), !.files = @ \cup {fname}]

\* try: savefig; st.info  except: st.warning  finally: plt.close(fig)
SaveAndClose(rs, i, fname, n) ==
    Only({[r EXCEPT !.exc = "",
                    !.infos = IF r.exc = "" THEN Append(@, fname) ELSE @,
                    !.warnings = IF r.exc = "" THEN @ ELSE Append(@, "savefig"),
                    !.figs[i].ev = Append(@, "close")] :
          r \in {savefig(rs, i, fname, n)}})

save_fig(rs, i, base_name, n) ==
    Only({IF r1.exc # "" THEN Escape(r1, "save_fig")
          ELSE SaveAndClose(r1, i, FileName(r1.inp.OUTPUT_DIR, r1.STAMP, base_name), n) :
          r1 \in {ensure_outdir(rs, rs.inp.OUTPUT_DIR, n)}})

\* qc.draw(output="text").__str__()
draw_circuit_text(qc) == [j \in 1..Len(qc) |-> qc[j].name]

\* fig = plot(...); st.pyplot(fig): the chart, created and shown
NewFig(rs, base_name, n) ==
    [rs EXCEPT !.figs = Append(@, [base |-> base_name, n |-> n,
                                   ev |-> <<"create", "pyplot">>])]

\* the try block shared by the histogram and the two Bloch charts:
\* fig = plot(...); st.pyplot(fig); save_fig(fig, base) or plt.close(fig)
PlotShowSave(rs, base_name, wantSave, n) ==
    IF Fails(rs, "plot", n) THEN Raise(rs, "plot", n)
    ELSE Only({IF Fails(r, "pyplot", n) THEN Raise(r, "pyplot", n)
               ELSE IF wantSave THEN save_fig(r, Len(r.figs), base_name, n)
               ELSE FigEvent(r, Len(r.figs), "close") :
               r \in {NewFig(rs, base_name, n)}})

\* try: PlotShowSave  except Exception as e: st.warning(w)
TryPlot(rs, base_name, wantSave, n, w) ==
    Only({Catch(r, w) : r \in {PlotShowSave(rs, base_name, wantSave, n)}})

\* sim.run(qct, shots=shots).result().get_counts(), then st.code(...)
Simulated(rs, qc, shots) ==
    [rs EXCEPT !.execs = Append(@, [qc |-> qc, how |-> "simulator",
                                   shots |-> shots, engine |-> rs.cache]),
               !.counts = SimCounts(qc, shots, rs.pick),
               !.drawn = Append(@, draw_circuit_text(qc))]

run_and_plot_counts(rs, qc, shots, base_name) ==
    Only({Escape(r, "run_and_plot_counts") :
          r \in {Only({IF Fails(r0, "transpile", 1) THEN Raise(r0, "transpile", 1)
                       ELSE IF Fails(r0, "run", 1) THEN Raise(r0, "run", 1)
                       ELSE IF Fails(r0, "get_counts", 1) THEN Raise(r0, "get_counts", 1)
                       ELSE Only({TryPlot(r2, base_name,
                                          r2.inp.SAVE_PNGS /\ base_name # "", 1, "histograma") :
                                  r2 \in {Simulated(r0, qc, shots)}}) :
                       r0 \in {get_simulator(rs)}})}})

(***************************************************************************)
(* The script, top to bottom.                                              *)
(***************************************************************************)
\* lines 30-33: from qiskit import ..., from qiskit_aer import AerSimulator
TopImports == {"qiskit", "qiskit_aer"}
ModuleImports(rs) ==
    IF TopImports \subseteq installed THEN rs ELSE Raise(rs, "ImportError", 0)

\* faulty variant: the stamp is taken anew in every run
InitStampSinGuarda(rs) ==
    [rs EXCEPT !.session_state = [has_STAMP |-> TRUE, STAMP |-> clock], !.STAMP = clock]

\* if "STAMP" not in st.session_state: ... ; STAMP = st.session_state.STAMP
InitStamp(rs) ==
    IF rs.session_state.has_STAMP THEN [rs EXCEPT !.STAMP = rs.session_state.STAMP]
    ELSE [rs EXCEPT !.session_state = [has_STAMP |-> TRUE, STAMP |-> clock],
                    !.STAMP = clock]

\* faulty variant: the sidebar value is not limited by the slider's range
SidebarSinTope(rs) == [rs EXCEPT !.DEFAULT_SHOTS = rs.inp.pickShots]

\* OUTPUT_DIR, SAVE_PNGS, DEFAULT_SHOTS
Sidebar(rs) ==
    [rs EXCEPT !.DEFAULT_SHOTS =
         Slider(SliderMin, SliderMax, SliderValue, SliderStep, rs.inp.pickShots)]

\* with st.expander("Verificacion rapida de paquetes"): try: import ... except
PackagePanel(rs) ==
    [rs EXCEPT !.panel = IF Packages \subseteq installed THEN "ok" ELSE "error"]

\* a tab with a shots input and a button that runs a measured circuit
MeasuredTab(rs, n, qc, base_name) ==
    IF rs.exc # "" THEN rs
    ELSE Only({IF ~w.ok THEN Raise(rs, "number_input", 0)
               ELSE IF rs.step = n
                    THEN Only({run_and_plot_counts(r1, qc, w.v, base_name) :
                               r1 \in {[rs EXCEPT !.buttons = @ \cup {n}]}})
               ELSE [rs EXCEPT !.buttons = @ \cup {n}] :
               w \in {NumberInput(ShotsMin, ShotsMax, rs.DEFAULT_SHOTS, rs.inp.typed)}})

Tab1(rs) == MeasuredTab(rs, 1, CircuitPaso1, "p1_moneda")

\* expZ, expX = real part of <psi|Z|psi>, <psi|X|psi>, over the denominator 2^k
Expectations(psi) ==
    [Z |-> PAtOne(CNorm2(psi.a0).re) - PAtOne(CNorm2(psi.a1).re),
     X |-> 2 * PAtOne(PAdd(PMul(psi.a0.re, psi.a1.re), PMul(psi.a0.im, psi.a1.im))),
     den |-> Pow2(psi.k)]
ExpectationsPaso2 == Only({Expectations(psi) : psi \in {StatevectorOf(CircuitPaso2)}})

Tab2(rs) ==
    IF rs.exc # "" THEN rs
    ELSE IF rs.step # 2 THEN [rs EXCEPT !.buttons = @ \cup {2}]
    ELSE IF Fails(rs, "from_instruction", 1)
         THEN Raise([rs EXCEPT !.buttons = @ \cup {2}], "from_instruction", 1)
    ELSE [rs EXCEPT !.buttons = @ \cup {2},
                    !.execs = Append(@, [qc |-> CircuitPaso2, how |-> "statevector",
                                        shots |-> 0, engine |-> 0]),
                    !.metrics = ExpectationsPaso2,
                    !.drawn = Append(@, draw_circuit_text(CircuitPaso2))]

Tab3(rs) == MeasuredTab(rs, 3, CircuitPaso3, "p3_hh")

Tab4(rs) == MeasuredTab(rs, 4, CircuitPaso4, "p4_fase_pi")

\* total = sum(counts.values()) or 1; p0 = counts.get('0', 0) / total; ...
Proportions(rs) ==
    Only({[rs EXCEPT !.shown = [n0 |-> (10000 * rs.counts.n0) \div total,
                                n1 |-> (10000 * rs.counts.n1) \div total]] :
          total \in {IF rs.counts.n0 + rs.counts.n1 = 0 THEN 1
                     ELSE rs.counts.n0 + rs.counts.n1}})

Tab5(rs) ==
    IF rs.exc # "" THEN rs
    ELSE Only({IF ~w.ok THEN Raise(rs, "number_input", 0)
               ELSE IF rs.step # 5 THEN r1
               ELSE Only({IF r2.exc # "" THEN r2 ELSE Proportions(r2) :
                          r2 \in {run_and_plot_counts(r1, CircuitPaso5(r1.phi), w.v, "p5_fase")}}) :
               w \in {NumberInput(ShotsMin5, ShotsMax5, ShotsValue5, rs.inp.typed)},
               r1 \in {[rs EXCEPT !.buttons = @ \cup {5},
                                  !.phi = Slider(PhiMinCent, PhiMaxCent, PhiValueCent,
                                                 PhiStepCent, rs.inp.pickPhi)]}})

\* Statevector.from_instruction(qc); st.code(draw_circuit_text(qc))
StateShown(rs, qc) ==
    [rs EXCEPT !.execs = Append(@, [qc |-> qc, how |-> "statevector",
                                   shots |-> 0, engine |-> 0]),
               !.drawn = Append(@, draw_circuit_text(qc))]

\* one of the two halves of step 6
BlochHalf(rs, qc, base_name, n, w) ==
    IF rs.exc # "" THEN rs
    ELSE IF Fails(rs, "from_instruction", n) THEN Raise(rs, "from_instruction", n)
    ELSE Only({TryPlot(r, base_name, r.inp.SAVE_PNGS, n, w) : r \in {StateShown(rs, qc)}})

Tab6(rs) ==
    IF rs.exc # "" THEN rs
    ELSE IF rs.step # 6 THEN [rs EXCEPT !.buttons = @ \cup {6}]
    ELSE Only({BlochHalf(h, CircuitPaso6SX, "p6_bloch_sx", 2, "Bloch SX") :
               h \in {BlochHalf(r1, CircuitPaso6H, "p6_bloch_h", 1, "Bloch H") :
                      r1 \in {[rs EXCEPT !.buttons = @ \cup {6}]}}})

\* st.divider(); st.markdown(...): the end of the script
Cierre(rs) == IF rs.exc # "" THEN rs ELSE [rs EXCEPT !.done = TRUE]

Script(rs) ==
    IF ~(TopImports \subseteq installed) THEN ModuleImports(rs)
    ELSE Only({Cierre(r6) : r6 \in {Tab6(r5) : r5 \in {Tab5(r4) : r4 \in {Tab4(r3) : r3 \in
              {Tab3(r2) : r2 \in {Tab2(r1) : r1 \in {Tab1(p) : p \in {PackagePanel(sb) : sb \in
              {Sidebar(st) : st \in {InitStamp(r0) : r0 \in {ModuleImports(rs)}}}}}}}}}}})

(***************************************************************************)
(* Actions: each is one run of the script.                                 *)
(***************************************************************************)
\* what stays on the page and in the process after the run; the record keeps
\* the values the widgets returned, not what was typed into them
Commit(rs) ==
    /\ session_state' = rs.session_state
    /\ cache' = rs.cache
    /\ built' = rs.built
    /\ calls' = rs.calls
    /\ files' = rs.files
    /\ dirs' = rs.dirs
    /\ last' = [rs EXCEPT !.F = {}, !.pick = 0, !.inp.pickShots = SliderValue,
                          !.inp.typed = 0, !.inp.pickPhi = PhiValueCent]
    /\ UNCHANGED <<clock, installed>>

NoSession == [has_STAMP |-> FALSE, STAMP |-> 0]
\* no script run yet: step -1 (a run without a button has step 0)
NoRun == RunRecord(-1, DefaultInputs, {}, 0, {}, {}, 0, 0, 0, NoSession)

\* the server process has started; no browser has opened the page yet
InitWith(pkgs) ==
    /\ clock = 0
    /\ installed \in pkgs
    /\ session_state = NoSession
    /\ opened = 0
    /\ cache = 0
    /\ built = 0
    /\ calls = 0
    /\ files = {}
    /\ dirs = {}
    /\ nruns = 0
    /\ last = NoRun

\* a browser opens the page: a fresh session state, the script runs once
NewSession ==
    /\ opened' = clock
    /\ \E rs \in {Script(RunRecord(0, DefaultInputs, {}, 0, files, dirs, cache, built,
                                      calls, NoSession))} : Commit(rs)
    /\ UNCHANGED nruns

\* the user changes a sidebar widget: the script runs, no button is pressed
Rerun ==
    /\ last.done
    /\ \E inp \in SaveInputs :
          \E rs \in {Script(StartRun(0, inp, {}, 0))} : Commit(rs)
    /\ UNCHANGED <<opened, nruns>>

\* the user presses the button of step n
Press(n, inp, F, pick) ==
    /\ nruns < MaxRuns
    /\ \E rs \in {Script(StartRun(n, inp, F, pick))} : Commit(rs)
    /\ nruns' = nruns + 1
    /\ UNCHANGED opened

\* a second passes
Tick ==
    /\ clock < MaxClock
    /\ clock' = clock + 1
    /\ UNCHANGED <<installed, session_state, opened, cache, built, calls,
                   files, dirs, nruns, last>>

(***************************************************************************)
(* Spec: every package is installed; steps run with saving on or off and   *)
(* with library and file system calls failing.                             *)
(***************************************************************************)
Init == InitWith({Packages})

\* the button of a step can be pressed when the last run put it on the page
Paso1 ==
    /\ 1 \in last.buttons
    /\ \E inp \in SaveInputs, F \in FaultSets(1) : Press(1, inp, F, 1)
Paso2 ==
    /\ 2 \in last.buttons
    /\ \E inp \in SaveInputs, F \in FaultSets(2) : Press(2, inp, F, 1)
Paso3 ==
    /\ 3 \in last.buttons
    /\ \E inp \in SaveInputs, F \in FaultSets(3) : Press(3, inp, F, 1)
Paso4 ==
    /\ 4 \in last.buttons
    /\ \E inp \in SaveInputs, F \in FaultSets(4) : Press(4, inp, F, 1)
Paso5 ==
    /\ 5 \in last.buttons
    /\ \E inp \in SaveInputs, F \in FaultSets(5) : Press(5, inp, F, 1)
Paso6 ==
    /\ 6 \in last.buttons
    /\ \E inp \in SaveInputs, F \in FaultSets(6) : Press(6, inp, F, 1)

Next ==
    \/ NewSession
    \/ Rerun
    \/ Paso1
    \/ Paso2
    \/ Paso3
    \/ Paso4
    \/ Paso5
    \/ Paso6
    \/ Tick

Spec == Init /\ [][Next]_vars

(***************************************************************************)
(* SpecInputs: any set of packages is installed; steps run with the shots  *)
(* and phase widgets set by the user, no call fails and saving is off.     *)
(***************************************************************************)
InitInputs == InitWith(SUBSET Packages)

Entrada1 ==
    /\ 1 \in last.buttons
    /\ \E inp \in WidgetInputs(1), pick \in SamplePicks : Press(1, inp, {}, pick)
Entrada2 ==
    /\ 2 \in last.buttons
    /\ \E inp \in WidgetInputs(2) : Press(2, inp, {}, 1)
Entrada3 ==
    /\ 3 \in last.buttons
    /\ \E inp \in WidgetInputs(3), pick \in SamplePicks : Press(3, inp, {}, pick)
Entrada4 ==
    /\ 4 \in last.buttons
    /\ \E inp \in WidgetInputs(4), pick \in SamplePicks : Press(4, inp, {}, pick)
Entrada5 ==
    /\ 5 \in last.buttons
    /\ \E inp \in WidgetInputs(5), pick \in SamplePicks : Press(5, inp, {}, pick)
Entrada6 ==
    /\ 6 \in last.buttons
    /\ \E inp \in WidgetInputs(6) : Press(6, inp, {}, 1)

NextInputs ==
    \/ NewSession
    \/ Entrada1
    \/ Entrada2
    \/ Entrada3
    \/ Entrada4
    \/ Entrada5
    \/ Entrada6

SpecInputs == InitInputs /\ [][NextInputs]_vars

(***************************************************************************)
(* Properties.                                                             *)
(***************************************************************************)
Range(seq) == {seq[i] : i \in 1..Len(seq)}
Count(seq, x) == Cardinality({i \in 1..Len(seq) : seq[i] = x})
FileSystemCalls == {"mkdir", "savefig"}
\* the charts a step draws: <<base name, number of the chart in the run>>
ChartsOf(step) ==
    CASE step = 1 -> {<<"p1_moneda", 1>>}
      [] step = 3 -> {<<"p3_hh", 1>>}
      [] step = 4 -> {<<"p4_fase_pi", 1>>}
      [] step = 5 -> {<<"p5_fase", 1>>}
      [] step = 6 -> {<<"p6_bloch_h", 1>>, <<"p6_bloch_sx", 2>>}
      [] OTHER -> {}
\* 4*cos^2(phi/2) = w^2 + 2 + w^-2 and 4*sin^2(phi/2) = 2 - w^2 - w^-2
Cos2x4 == <<1, 0, 2, 0, 1>>
Sin2x4 == <<-1, 0, 2, 0, -1>>

\* C1: in steps 1, 3, 4, 5 and 6 any failure of simulation or of rendering is
\* caught inside the step and gives a warning, no exception leaves the step
\* and the script run goes on to its end.
C1_FailuresCaught ==
    (last.step \in {1, 3, 4, 5, 6}
       /\ \A f \in Range(last.failed) : f[1] \notin FileSystemCalls)
    => /\ last.done
       /\ last.exc = ""
       /\ last.escaped = <<>>
       /\ Len(last.warnings) >= Len(last.failed)

\* C2 as stated: after a step with base name b has run to its end with saving
\* enabled and no file system failure, exactly one file {STAMP}_b.png with the
\* session's stamp is in the output directory.
C2_FileAfterEverySavingRun ==
    (last.step \in {1, 3, 4, 5, 6} /\ last.inp.SAVE_PNGS /\ last.done
       /\ \A f \in Range(last.failed) : f[1] \notin FileSystemCalls)
    => \A c \in ChartsOf(last.step) :
          Cardinality({f \in files : /\ f.dir = last.inp.OUTPUT_DIR
                                     /\ f.stamp = opened
                                     /\ f.base = c[1]}) = 1

\* the n-th chart of run r was computed, drawn, shown and written: no call made
\* for it failed (a failed mkdir counts only through the write that follows)
\* and, for the second chart, the first state vector did not abort the step
ChartWritten(r, n) ==
    /\ \A f \in Range(r.failed) : f[2] = n => f[1] = "mkdir"
    /\ n = 2 => <<"from_instruction", 1>> \notin Range(r.failed)

\* C2 amended: a step run with saving enabled leaves the files as they were,
\* plus one file {STAMP}_b.png for each chart b of the step that was computed,
\* drawn, shown and written without a failure, STAMP being the time the
\* session opened (a repeated run writes the same name again); a step run with
\* saving disabled changes neither the files nor the directories; a run
\* without a button writes nothing.
C2_Persistence ==
    [][IF nruns' = nruns + 1
       THEN IF last'.inp.SAVE_PNGS
            THEN files' = files \cup
                     {FileName(last'.inp.OUTPUT_DIR, opened', c[1]) :
                        c \in {x \in ChartsOf(last'.step) : ChartWritten(last', x[2])}}
            ELSE files' = files /\ dirs' = dirs
       ELSE files' = files]_vars

\* a step is run a second time, a second after the session opened, and its
\* file carries the stamp of the session's first run
C2_Witness ==
    /\ nruns = 2
    /\ clock > opened
    /\ last.step = 1
    /\ last.inp.SAVE_PNGS
    /\ Len(last.infos) = 1
    /\ files = {FileName("figuras", opened, "p1_moneda")}

\* C3: save_fig never raises on a file system error: a failed directory
\* creation and a failed write each give one warning, no exception leaves
\* save_fig or the step, and after a failed directory creation the write is
\* still attempted.
C3_SaveFigNeverRaises ==
    /\ "save_fig" \notin Range(last.escaped)
    /\ last.exc \notin FileSystemCalls
    /\ \A call \in FileSystemCalls :
          Count(last.warnings, call) =
              Cardinality({i \in 1..Len(last.failed) : last.failed[i][1] = call})
    /\ \A f \in Range(last.failed) :
          f[1] = "mkdir" =>
             \E i \in 1..Len(last.figs) :
                 last.figs[i].n = f[2] /\ "savefig" \in Range(last.figs[i].ev)
    /\ (last.step >= 0 /\ \A f \in Range(last.failed) : f[1] \in FileSystemCalls)
          => last.done /\ last.escaped = <<>>

\* the directory could not be created, the write was attempted and failed,
\* both were reported and the run reached its end
C3_Witness ==
    /\ last.done
    /\ <<"mkdir", 1>> \in Range(last.failed)
    /\ "mkdir" \in Range(last.warnings)
    /\ "savefig" \in Range(last.warnings)
    /\ \E i \in 1..Len(last.figs) : "savefig" \in Range(last.figs[i].ev)

\* C4: every chart a step creates is closed exactly once by the end of the
\* step, on every path, and nothing is done with it after it is closed.
C4_ClosedOnce ==
    \A i \in 1..Len(last.figs) :
        /\ Count(last.figs[i].ev, "close") = 1
        /\ last.figs[i].ev[Len(last.figs[i].ev)] = "close"

\* C5: in one process get_simulator constructs the engine at most once, every
\* call returns that instance, and every measured step runs on it.
C5_OneEngine ==
    /\ built <= 1
    /\ cache = built
    /\ calls >= 1 => built = 1
    /\ \A i \in 1..Len(last.execs) :
          last.execs[i].how = "simulator" => last.execs[i].engine = 1

\* a measured step runs after get_simulator was called at least once before
C5_Witness ==
    /\ calls >= 2
    /\ built = 1
    /\ last.step \in {1, 3, 4, 5}
    /\ Len(last.execs) = 1
    /\ last.execs[1].engine = 1

\* C6: when the import of any of qiskit, qiskit_aer, qiskit_ibm_runtime fails,
\* the failure is shown in the diagnostic panel, the script run is not
\* terminated and the steps remain on the page.
C6_MissingReported ==
    (last.step >= 0 /\ installed # Packages)
    => /\ last.panel = "error"
       /\ last.done
       /\ last.buttons = 1..6

\* C7: a circuit with a measurement is only run on the simulator, with a shot
\* count, and yields counts; a circuit without one is only converted to a
\* state vector, with no simulator and no shots; steps 1, 3, 4, 5 do the
\* first and steps 2 and 6 the second.
C7_OneWay ==
    \A i \in 1..Len(last.execs) :
        /\ HasMeasure(last.execs[i].qc) <=> last.execs[i].how = "simulator"
        /\ last.execs[i].how \in {"simulator", "statevector"}
        /\ last.execs[i].how = "simulator"
              => /\ last.step \in {1, 3, 4, 5}
                 /\ last.execs[i].engine # 0
                 /\ last.execs[i].shots > 0
                 /\ last.counts.n0 + last.counts.n1 = last.execs[i].shots
        /\ last.execs[i].how = "statevector"
              => /\ last.step \in {2, 6}
                 /\ last.execs[i].engine = 0
                 /\ last.execs[i].shots = 0
                 /\ last.counts = NoCounts

\* step 6 has converted its two circuits in a process whose simulator has
\* already run a measured circuit
C7_Witness ==
    /\ last.step = 6
    /\ Len(last.execs) = 2
    /\ calls >= 1

\* C8: step 4 builds H, P(pi), H, measure; its ideal distribution gives "1"
\* with probability 1, and the noise-free simulator reports "1" for all shots.
C8_PiPhase ==
    (last.step = 4 /\ last.execs # <<>>)
    => /\ last.execs[1].qc = <<GateH, GatePPi, GateH, GateMeasure>>
       /\ Ideal(last.execs[1].qc).n0 = CZero
       /\ Ideal(last.execs[1].qc).n1 =
             [re |-> PConst(Ideal(last.execs[1].qc).den), im |-> PZero]
       /\ last.counts = [n0 |-> 0, n1 |-> last.execs[1].shots]
       /\ 100 * last.counts.n1 >= 99 * last.execs[1].shots

\* step 4 has run with 100000 shots, all reporting "1"
C8_Witness ==
    /\ last.step = 4
    /\ last.execs # <<>>
    /\ last.counts.n1 = ShotsMax

\* C9: for every angle of the slider step 5 builds H, RZ(phi), H, measure,
\* whose ideal distribution is P(0) = cos^2(phi/2), P(1) = sin^2(phi/2); it
\* gives "0" with certainty at phi = 0 and "1" with certainty at phi = pi,
\* as the circuit of step 4 does.
C9_TunablePhase ==
    (last.step = 5 /\ last.execs # <<>>)
    => /\ last.phi \in PhiMinCent..PhiMaxCent
       /\ last.execs[1].qc = <<GateH, GateRZ(last.phi), GateH, GateMeasure>>
       /\ \E d \in {Ideal(last.execs[1].qc)} :
             /\ d.n0.im = PZero /\ d.n1.im = PZero
             /\ \A j \in 1..5 : /\ 4 * d.n0.re[j] = d.den * Cos2x4[j]
                                /\ 4 * d.n1.re[j] = d.den * Sin2x4[j]
             /\ PAtOne(d.n0.re) = d.den /\ PAtOne(d.n1.re) = 0
             /\ PEvenOnly(d.n0.re) /\ PEvenOnly(d.n1.re)
             /\ PAtI(d.n0.re) = 0 /\ PAtI(d.n1.re) = d.den
             /\ \E e \in {Ideal(<<GateH, GatePPi, GateH, GateMeasure>>)} :
                   /\ PAtI(d.n0.re) * e.den = PAtOne(e.n0.re) * d.den
                   /\ PAtI(d.n1.re) * e.den = PAtOne(e.n1.re) * d.den
       /\ last.phi = 0 => last.counts = [n0 |-> last.execs[1].shots, n1 |-> 0]

\* step 5 has run at phi = 0 with 200000 shots, all reporting "0"
C9_Witness ==
    /\ last.step = 5
    /\ last.phi = 0
    /\ last.execs # <<>>
    /\ last.counts.n0 = ShotsMax5

\* C10: whatever the user selects, the shots passed to the simulator are in
\* 100..200000, and the sidebar default lies inside the bounds of the inputs
\* of steps 1, 3 and 4, so that none of them rejects it.
C10_ShotsInRange ==
    /\ \A i \in 1..Len(last.execs) :
          last.execs[i].how = "simulator" => last.execs[i].shots \in 100..200000
    /\ (last.step >= 0 /\ last.exc # "ImportError")
          => /\ last.DEFAULT_SHOTS \in ShotsMin..ShotsMax
             /\ \A f \in Range(last.failed) : f[1] # "number_input"

\* step 1 has run with the sidebar slider at its maximum and the step's own
\* input left at that default
C10_Witness ==
    /\ last.step = 1
    /\ last.DEFAULT_SHOTS = SliderMax
    /\ Len(last.execs) = 1
    /\ last.execs[1].shots = SliderMax

====
